---------------------------- MODULE Spec2Model ----------------------------
(***************************************************************************)
(* Model of the POD converter/extractor of cpan-package-readme-mcp-server  *)
(* (src/src/services/readme-parser.ts).  Texts are TLA+ strings; every     *)
(* regular expression of the source is an operator that computes what the  *)
(* JavaScript engine computes for it (leftmost match, greedy/lazy          *)
(* quantifiers, backtracking) on the characters of the text.               *)
(*                                                                         *)
(* The grave accent cannot be written inside a TLA+ string; the model      *)
(* writes it as "~" (BT), a character that occurs in no input text.        *)
(***************************************************************************)
EXTENDS Integers, Sequences, FiniteSets, TLC

-----------------------------------------------------------------------------
(* Characters and the JavaScript string primitives the parser uses.        *)

Ch(s, i) == SubSeq(s, i, i)

CharsOf(s) == {Ch(s, i) : i \in 1..Len(s)}

\* \s of the regular expressions, restricted to the characters of the inputs
SpaceChars == {" ", "\n", "\t"}

LowerLetters == "abcdefghijklmnopqrstuvwxyz"

UpperLetters == "ABCDEFGHIJKLMNOPQRSTUVWXYZ"

LowerChars == CharsOf(LowerLetters)

UpperChars == CharsOf(UpperLetters)

\* \w of the regular expressions
WordChars == LowerChars \cup UpperChars \cup CharsOf("0123456789_")

IsSpace(c) == c \in SpaceChars

IsWord(c) == c \in WordChars

\* case folding of the i flag
Fold(c) ==
    IF c \in UpperChars
    THEN Ch(LowerLetters, CHOOSE k \in 1..26 : Ch(UpperLetters, k) = c)
    ELSE c

Min(a, b) == IF a < b THEN a ELSE b

\* the least element of a non-empty set of positions
SetMin(S) == CHOOSE m \in S : \A k \in S : m <= k

SetMax(S) == CHOOSE m \in S : \A k \in S : m >= k

\* the first position of S, or d when S is empty
FirstOr(S, d) == IF S = {} THEN d ELSE SetMin(S)

Max(a, b) == IF a > b THEN a ELSE b

\* s.substring(a, b) with 0-based a, b as in JavaScript
Substring(s, a, b) ==
    LET lo == Max(0, Min(a, Len(s)))
        hi == Max(0, Min(b, Len(s)))
    IN SubSeq(s, Min(lo, hi) + 1, Max(lo, hi))

\* does the literal lit occur in s at the 1-based position i
StartsAt(s, i, lit) == i >= 1 /\ i + Len(lit) - 1 <= Len(s) /\ SubSeq(s, i, i + Len(lit) - 1) = lit

\* the same under the i flag
RECURSIVE StartsAtCI(_, _, _)
StartsAtCI(s, i, lit) ==
    IF lit = "" THEN TRUE
    ELSE /\ i >= 1 /\ i <= Len(s)
         /\ Fold(Ch(s, i)) = Fold(Head(lit))
         /\ StartsAtCI(s, i + 1, Tail(lit))

\* first position >= i holding a character that is not whitespace, Len(s)+1 if none
RECURSIVE SkipSpace(_, _)
SkipSpace(s, i) == IF i <= Len(s) /\ IsSpace(Ch(s, i)) THEN SkipSpace(s, i + 1) ELSE i

\* first position >= i holding a newline, Len(s)+1 if none: the end of the line
LineEnd(s, i) == FirstOr({j \in i..Len(s) : Ch(s, j) = "\n"}, Len(s) + 1)

\* last position <= i holding a character that is not whitespace, 0 if none
RECURSIVE SkipSpaceBack(_, _)
SkipSpaceBack(s, i) == IF i >= 1 /\ IsSpace(Ch(s, i)) THEN SkipSpaceBack(s, i - 1) ELSE i

\* String.prototype.trim
Trim(s) == LET a == SkipSpace(s, 1) IN IF a > Len(s) THEN "" ELSE SubSeq(s, a, SkipSpaceBack(s, Len(s)))

\* s.split('\n')
RECURSIVE SplitFrom(_, _)
SplitFrom(s, i) ==
    LET e == LineEnd(s, i)
    IN IF e > Len(s) THEN <<SubSeq(s, i, Len(s))>>
       ELSE <<SubSeq(s, i, e - 1)>> \o SplitFrom(s, e + 1)

SplitLines(s) == SplitFrom(s, 1)

\* lines.join('\n')
RECURSIVE JoinLines(_)
JoinLines(ls) ==
    IF ls = <<>> THEN ""
    ELSE IF Len(ls) = 1 THEN ls[1]
    ELSE ls[1] \o "\n" \o JoinLines(Tail(ls))

\* s.indexOf(t), 0-based, -1 when t does not occur
IndexOf(s, t) ==
    IF t = "" THEN 0
    ELSE FirstOr({j \in 1..(Len(s) - Len(t) + 1) : StartsAt(s, j, t)}, 0) - 1

Includes(s, t) == IndexOf(s, t) # -1

-----------------------------------------------------------------------------
(* Section locator: /=head1\s+NAME\s*\n([\s\S]*?)(?=\n=head1|\n=cut|$)/i   *)

NoMatch == [found |-> FALSE, text |-> ""]

\* position of the last newline in s[a..b-1], 0 if there is none
RECURSIVE LastNewline(_, _, _)
LastNewline(s, a, b) ==
    IF b <= a THEN 0
    ELSE IF Ch(s, b - 1) = "\n" THEN b - 1
    ELSE LastNewline(s, a, b - 1)

\* SectionEnd with a lookahead that holds before a heading of any level
SectionEndAnyHeading(s, e) ==
    FirstOr({j \in e..Len(s) : StartsAtCI(s, j, "\n=head") \/ StartsAtCI(s, j, "\n=cut")},
            Len(s) + 1)

\* the lazy group ends at the first position where the lookahead holds
SectionEnd(s, e) ==
    FirstOr({j \in e..Len(s) : StartsAtCI(s, j, "\n=head1") \/ StartsAtCI(s, j, "\n=cut")},
            Len(s) + 1)

\* start of group 1 when the heading of the section matches at p, else 0.
\* \s+ and \s* are greedy; \s*\n then ends at the last newline of the
\* whitespace that follows the name.  optS is the S? of EXAMPLES?.
SectionGroupStart(s, p, name, optS) ==
    IF ~(StartsAtCI(s, p, "=head1") /\ p + 6 <= Len(s) /\ IsSpace(Ch(s, p + 6))) THEN 0
    ELSE LET q == SkipSpace(s, p + 6)
         IN IF ~StartsAtCI(s, q, name) THEN 0
            ELSE LET r0 == q + Len(name)
                     r  == IF optS /\ StartsAtCI(s, r0, "s") THEN r0 + 1 ELSE r0
                     nl == LastNewline(s, r, SkipSpace(s, r))
                 IN IF nl = 0 THEN 0 ELSE nl + 1

\* podContent.match(...): the leftmost position where the heading matches
SectionMatch(s, name, optS) ==
    LET p == FirstOr({j \in 1..Len(s) : SectionGroupStart(s, j, name, optS) # 0}, 0)
    IN IF p = 0 THEN NoMatch
       ELSE LET gs == SectionGroupStart(s, p, name, optS)
            IN [found |-> TRUE, text |-> SubSeq(s, gs, SectionEnd(s, gs) - 1)]

-----------------------------------------------------------------------------
(* extractPodCodeBlocks                                                    *)

\* line.match(/^\s{2,}/)
IsCodeLine(line) == Len(line) >= 2 /\ IsSpace(Ch(line, 1)) /\ IsSpace(Ch(line, 2))

\* line.replace(/^\s{2,}/, '') on a code line
StripIndent(line) == SubSeq(line, SkipSpace(line, 1), Len(line))

PushBlock(blocks, cur) == IF Trim(cur) # "" THEN Append(blocks, Trim(cur)) ELSE blocks

RECURSIVE PodBlocksLoop(_, _, _, _, _)
PodBlocksLoop(lines, k, blocks, cur, inCode) ==
    IF k > Len(lines) THEN PushBlock(blocks, cur)
    ELSE IF IsCodeLine(lines[k])
         THEN PodBlocksLoop(lines, k + 1, blocks, cur \o StripIndent(lines[k]) \o "\n", TRUE)
    ELSE IF inCode
         THEN PodBlocksLoop(lines, k + 1, PushBlock(blocks, cur), "", FALSE)
    ELSE PodBlocksLoop(lines, k + 1, blocks, cur, inCode)

extractPodCodeBlocks(content) == PodBlocksLoop(SplitLines(content), 1, <<>>, "", FALSE)

-----------------------------------------------------------------------------
(* looksLikePerl                                                           *)

\* /lit\s+\w+/ at position i
LitSpaceWordAt(s, i, lit) ==
    /\ StartsAt(s, i, lit)
    /\ i + Len(lit) <= Len(s) /\ IsSpace(Ch(s, i + Len(lit)))
    /\ LET q == SkipSpace(s, i + Len(lit)) IN q <= Len(s) /\ IsWord(Ch(s, q))

\* /lit\w+/ at position i
LitWordAt(s, i, lit) ==
    StartsAt(s, i, lit) /\ i + Len(lit) <= Len(s) /\ IsWord(Ch(s, i + Len(lit)))

\* \b before position i
BoundaryAt(s, i) ==
    LET before == i > 1 /\ IsWord(Ch(s, i - 1))
        after  == i <= Len(s) /\ IsWord(Ch(s, i))
    IN before # after

\* /my\s+\$\w+/ at position i
MyVarAt(s, i) ==
    /\ StartsAt(s, i, "my")
    /\ i + 2 <= Len(s) /\ IsSpace(Ch(s, i + 2))
    /\ LitWordAt(s, SkipSpace(s, i + 2), "$")

\* /print\s+/ at position i
PrintAt(s, i) == StartsAt(s, i, "print") /\ i + 5 <= Len(s) /\ IsSpace(Ch(s, i + 5))

looksLikePerl(code) ==
    \E i \in 1..Len(code) :
        \/ LitSpaceWordAt(code, i, "use")
        \/ MyVarAt(code, i)
        \/ LitWordAt(code, i, "$")
        \/ LitWordAt(code, i, "@")
        \/ LitWordAt(code, i, "%")
        \/ LitWordAt(code, i, "->")
        \/ (BoundaryAt(code, i) /\ LitSpaceWordAt(code, i, "sub"))
        \/ PrintAt(code, i)

-----------------------------------------------------------------------------
(* extractExampleTitleFromContext, extractExampleDescriptionFromContext    *)

\* an absent value (undefined) is the empty sequence, a present one <<v>>
Undefined == <<>>

Some(v) == <<v>>

TitleWindow == 200

TitleMaxLen == 50

DescriptionWindow == 300

DescriptionStop == 200

DescriptionMinLen == 10

\* /=head[234]\s+([^\n]+)\s*$/m at position p: 0 when it does not match,
\* else the start of group 1.  \s+ is greedy and gives characters back until
\* the character after it exists and is not a newline.
RECURSIVE BackOffToText(_, _, _)
BackOffToText(s, lo, q) ==
    IF q < lo THEN 0
    ELSE IF q <= Len(s) /\ Ch(s, q) # "\n" THEN q
    ELSE BackOffToText(s, lo, q - 1)

SubHeadingGroupStart(s, p) ==
    IF ~(StartsAt(s, p, "=head") /\ p + 6 <= Len(s)
         /\ Ch(s, p + 5) \in {"2", "3", "4"} /\ IsSpace(Ch(s, p + 6)))
    THEN 0
    ELSE BackOffToText(s, p + 7, SkipSpace(s, p + 6))

\* beforeCode.match(...): the leftmost match in the window
headingMatch(beforeCode) ==
    LET p == FirstOr({j \in 1..Len(beforeCode) : SubHeadingGroupStart(beforeCode, j) # 0}, 0)
    IN IF p = 0 THEN NoMatch
       ELSE LET g == SubHeadingGroupStart(beforeCode, p)
            IN [found |-> TRUE, text |-> SubSeq(beforeCode, g, LineEnd(beforeCode, g) - 1)]

\* the loop over beforeCode.split('\n').reverse()
RECURSIVE TitleFromLines(_, _)
TitleFromLines(lines, k) ==
    IF k < 1 THEN Undefined
    ELSE LET trimmed == Trim(lines[k])
         IN IF trimmed # "" /\ ~StartsAt(trimmed, 1, "=") /\ Len(trimmed) < TitleMaxLen
            THEN Some(trimmed)
            ELSE TitleFromLines(lines, k - 1)

extractExampleTitleFromContext(content, codeBlock) ==
    LET codeIndex == IndexOf(content, codeBlock)
    IN IF codeIndex = -1 THEN Undefined
       ELSE LET beforeCode == Substring(content, Max(0, codeIndex - TitleWindow), codeIndex)
                hm == headingMatch(beforeCode)
            IN IF hm.found THEN Some(Trim(hm.text))
               ELSE LET lines == SplitLines(beforeCode)
                    IN TitleFromLines(lines, Len(lines))

RECURSIVE DescriptionLoop(_, _, _)
DescriptionLoop(lines, k, description) ==
    IF k > Len(lines) THEN description
    ELSE LET trimmed == Trim(lines[k])
         IN IF trimmed = "" \/ StartsAt(trimmed, 1, "=")
            THEN IF description # "" THEN description
                 ELSE DescriptionLoop(lines, k + 1, description)
            ELSE LET d == description \o (IF description # "" THEN " " ELSE "") \o trimmed
                 IN IF Len(d) > DescriptionStop THEN d
                    ELSE DescriptionLoop(lines, k + 1, d)

\* extractExampleDescriptionFromContext without the test on the length
extractExampleDescriptionAnyLength(content, codeBlock) ==
    LET codeIndex == IndexOf(content, codeBlock)
    IN IF codeIndex = -1 THEN Undefined
       ELSE LET from == codeIndex + Len(codeBlock)
                afterCode == Substring(content, from, from + DescriptionWindow)
                description == DescriptionLoop(SplitLines(afterCode), 1, "")
            IN IF description # "" THEN Some(description) ELSE Undefined

extractExampleDescriptionFromContext(content, codeBlock) ==
    LET codeIndex == IndexOf(content, codeBlock)
    IN IF codeIndex = -1 THEN Undefined
       ELSE LET from == codeIndex + Len(codeBlock)
                afterCode == Substring(content, from, from + DescriptionWindow)
                description == DescriptionLoop(SplitLines(afterCode), 1, "")
            IN IF Len(description) > DescriptionMinLen THEN Some(description) ELSE Undefined

\* a || b of JavaScript on an optional string: undefined and '' are falsy
OrElse(opt, dflt) == IF opt = Undefined \/ opt[1] = "" THEN dflt ELSE opt[1]

-----------------------------------------------------------------------------
(* The three passes                                                        *)

Example(title, code, description) ==
    [title |-> title, code |-> code, language |-> "perl", description |-> description]

SynopsisDescription == "Basic usage example from the module synopsis"

RECURSIVE SynopsisLoop(_, _)
SynopsisLoop(codeBlocks, k) ==
    IF k > Len(codeBlocks) THEN <<>>
    ELSE (IF Len(Trim(codeBlocks[k])) > 0
          THEN <<Example("Synopsis", Trim(codeBlocks[k]), Some(SynopsisDescription))>>
          ELSE <<>>) \o SynopsisLoop(codeBlocks, k + 1)

extractSynopsisExamples(podContent) ==
    LET synopsisMatch == SectionMatch(podContent, "SYNOPSIS", FALSE)
    IN IF synopsisMatch.found
       THEN SynopsisLoop(extractPodCodeBlocks(Trim(synopsisMatch.text)), 1)
       ELSE <<>>

RECURSIVE ExampleSectionLoop(_, _, _)
ExampleSectionLoop(examplesContent, codeBlocks, k) ==
    IF k > Len(codeBlocks) THEN <<>>
    ELSE LET code == codeBlocks[k]
         IN (IF Len(Trim(code)) > 0
             THEN <<Example(OrElse(extractExampleTitleFromContext(examplesContent, code),
                                   "Example " \o ToString(k)),
                            Trim(code),
                            extractExampleDescriptionFromContext(examplesContent, code))>>
             ELSE <<>>) \o ExampleSectionLoop(examplesContent, codeBlocks, k + 1)

extractExampleSectionExamples(podContent) ==
    LET examplesMatch == SectionMatch(podContent, "EXAMPLE", TRUE)
    IN IF examplesMatch.found
       THEN LET examplesContent == Trim(examplesMatch.text)
            IN ExampleSectionLoop(examplesContent, extractPodCodeBlocks(examplesContent), 1)
       ELSE <<>>

\* /^(\s{2,}.*(?:\n\s{2,}.*)*)/gm can match at p: p starts a line and two
\* whitespace characters (newlines included) follow
BlockStartsAt(s, p) ==
    /\ (p = 1 \/ Ch(s, p - 1) = "\n")
    /\ p + 1 <= Len(s) /\ IsSpace(Ch(s, p)) /\ IsSpace(Ch(s, p + 1))

\* the (?:\n\s{2,}.*)* part, from the end e of a line
RECURSIVE BlockExtend(_, _)
BlockExtend(s, e) ==
    IF e + 2 <= Len(s) /\ Ch(s, e) = "\n" /\ IsSpace(Ch(s, e + 1)) /\ IsSpace(Ch(s, e + 2))
    THEN BlockExtend(s, LineEnd(s, SkipSpace(s, e + 1)))
    ELSE e

\* first position after the match that starts at p
BlockEnd(s, p) == BlockExtend(s, LineEnd(s, SkipSpace(s, p)))

\* match[1].replace(/^\s{2,}/gm, '')
RECURSIVE DeindentFrom(_, _)
DeindentFrom(s, i) ==
    IF i > Len(s) THEN ""
    ELSE IF BlockStartsAt(s, i) THEN DeindentFrom(s, SkipSpace(s, i))
    ELSE LET e == LineEnd(s, i)
         IN SubSeq(s, i, Min(e, Len(s))) \o DeindentFrom(s, e + 1)

Deindent(s) == DeindentFrom(s, 1)

CodeMinLen == 10

\* the while loop over codeBlockRegex.exec, from lastIndex = from - 1
RECURSIVE CodeBlockLoop(_, _)
CodeBlockLoop(podContent, from) ==
    LET p == FirstOr({j \in from..Len(podContent) : BlockStartsAt(podContent, j)}, 0)
    IN
    IF p = 0 THEN <<>>
    ELSE LET e == BlockEnd(podContent, p)
             m == SubSeq(podContent, p, e - 1)
             code == Trim(Deindent(m))
         IN (IF Len(code) > CodeMinLen /\ looksLikePerl(code)
             THEN <<Example(OrElse(extractExampleTitleFromContext(podContent, m), "Code Example"),
                            code,
                            extractExampleDescriptionFromContext(podContent, m))>>
             ELSE <<>>) \o CodeBlockLoop(podContent, e)

extractCodeBlockExamples(podContent) == CodeBlockLoop(podContent, 1)

-----------------------------------------------------------------------------
(* convertPodToReadme                                                      *)

\* stands for the grave accent
BT == "~"

Fence == BT \o BT \o BT

Hashes(n) == SubSeq("####", 1, n)

\* readme.replace(/=headN\s+(.+)/g, '#..# $1')
\* /=headN\s+(.+)/ at position p: 0 when it does not match, else the start
\* of group 1
HeadingGroupStart(s, n, p) ==
    IF StartsAt(s, p, "=head" \o ToString(n)) /\ p + 6 <= Len(s) /\ IsSpace(Ch(s, p + 6))
    THEN BackOffToText(s, p + 7, SkipSpace(s, p + 6))
    ELSE 0

RECURSIVE HeadingFrom(_, _, _)
HeadingFrom(s, n, i) ==
    LET p == FirstOr({j \in i..Len(s) : HeadingGroupStart(s, n, j) # 0}, 0)
    IN IF p = 0 THEN SubSeq(s, i, Len(s))
       ELSE LET g == HeadingGroupStart(s, n, p)
                e == LineEnd(s, g)
            IN SubSeq(s, i, p - 1) \o Hashes(n) \o " " \o SubSeq(s, g, e - 1)
               \o HeadingFrom(s, n, e)

ReplaceHeading(s, n) == HeadingFrom(s, n, 1)

\* first position >= i holding ">", Len(s)+1 if none
FindGt(s, i) == FirstOr({j \in i..Len(s) : Ch(s, j) = ">"}, Len(s) + 1)

\* /X<([^>]+)>/ matches at position p
InlineAt(s, letter, p) ==
    StartsAt(s, p, letter \o "<") /\ FindGt(s, p + 2) <= Len(s) /\ FindGt(s, p + 2) > p + 2

\* readme.replace(/X<([^>]+)>/g, open $1 close)
RECURSIVE InlineFrom(_, _, _, _, _)
InlineFrom(s, letter, open, close, i) ==
    LET p == FirstOr({j \in i..Len(s) : InlineAt(s, letter, j)}, 0)
    IN IF p = 0 THEN SubSeq(s, i, Len(s))
       ELSE LET gt == FindGt(s, p + 2)
            IN SubSeq(s, i, p - 1) \o open \o SubSeq(s, p + 2, gt - 1) \o close
               \o InlineFrom(s, letter, open, close, gt + 1)

ReplaceInline(s, letter, open, close) == InlineFrom(s, letter, open, close, 1)

\* the loop that fences the indented lines
RECURSIVE FenceLoop(_, _, _)
FenceLoop(lines, k, inCodeBlock) ==
    IF k > Len(lines) THEN (IF inCodeBlock THEN <<Fence>> ELSE <<>>)
    ELSE IF IsCodeLine(lines[k])
         THEN (IF ~inCodeBlock THEN <<Fence \o "perl">> ELSE <<>>)
              \o <<StripIndent(lines[k])>> \o FenceLoop(lines, k + 1, TRUE)
         ELSE (IF inCodeBlock THEN <<Fence>> ELSE <<>>)
              \o <<lines[k]>> \o FenceLoop(lines, k + 1, FALSE)

DirectiveMarkers == {"=pod", "=cut", "=over", "=back", "=item"}

\* line.match(/^=(?:pod|cut|over|back|item)/)
IsDirectiveLine(line) == \E d \in DirectiveMarkers : StartsAt(line, 1, d)

\* .replace(/\n{3,}/g, '\n\n')
RECURSIVE SkipNewlines(_, _)
SkipNewlines(s, i) == IF i <= Len(s) /\ Ch(s, i) = "\n" THEN SkipNewlines(s, i + 1) ELSE i

RECURSIVE CollapseFrom(_, _)
CollapseFrom(s, i) ==
    IF i > Len(s) THEN ""
    ELSE LET e == SkipNewlines(s, i)
         IN IF e - i >= 3 THEN "\n\n" \o CollapseFrom(s, e)
            ELSE IF e > i THEN SubSeq(s, i, e - 1) \o CollapseFrom(s, e)
            ELSE LET t == LineEnd(s, i) IN SubSeq(s, i, t - 1) \o CollapseFrom(s, t)

\* the collapsing with /\n{3}/g: three newlines at a time become two
RECURSIVE CollapseThreeFrom(_, _)
CollapseThreeFrom(s, i) ==
    IF i > Len(s) THEN ""
    ELSE LET e == SkipNewlines(s, i)
         IN IF e - i >= 3 THEN "\n\n" \o CollapseThreeFrom(s, i + 3)
            ELSE IF e > i THEN SubSeq(s, i, e - 1) \o CollapseThreeFrom(s, e)
            ELSE LET t == LineEnd(s, i) IN SubSeq(s, i, t - 1) \o CollapseThreeFrom(s, t)

\* the collapsing with /\n{4,}/g: only four or more newlines become two
RECURSIVE CollapseFourFrom(_, _)
CollapseFourFrom(s, i) ==
    IF i > Len(s) THEN ""
    ELSE LET e == SkipNewlines(s, i)
         IN IF e - i >= 4 THEN "\n\n" \o CollapseFourFrom(s, e)
            ELSE IF e > i THEN SubSeq(s, i, e - 1) \o CollapseFourFrom(s, e)
            ELSE LET t == LineEnd(s, i) IN SubSeq(s, i, t - 1) \o CollapseFourFrom(s, t)

CollapseFourOrMore(s) == CollapseFourFrom(s, 1)

CollapseExactlyThree(s) == CollapseThreeFrom(s, 1)

Collapse(s) == CollapseFrom(s, 1)

\* the text assembled from the lines that are kept, before normalization
Assembled(podContent) ==
    LET h1 == ReplaceHeading(podContent, 1)
        h2 == ReplaceHeading(h1, 2)
        h3 == ReplaceHeading(h2, 3)
        h4 == ReplaceHeading(h3, 4)
        fi == ReplaceInline(h4, "I", "*", "*")
        fb == ReplaceInline(fi, "B", "**", "**")
        fc == ReplaceInline(fb, "C", BT, BT)
        fl == ReplaceInline(fc, "L", "", "")
        result == FenceLoop(SplitLines(fl), 1, FALSE)
    IN JoinLines(SelectSeq(result, LAMBDA line : ~IsDirectiveLine(line)))

\* the rendering of a string that is not empty
Render(podContent) == Trim(Collapse(Assembled(podContent)))

\* convertPodToReadme without the guard for an empty or absent value
convertPodToReadmeUnguarded(input) ==
    IF input.kind # "string" THEN [outcome |-> "throw", value |-> "TypeError"]
    ELSE [outcome |-> "return", value |-> Render(input.text)]

\* Inputs: a string, an absent value (null, undefined), or another value
\* that is not a string and is truthy (a number, an object).
StringInput(s) == [kind |-> "string", text |-> s]

AbsentInput == [kind |-> "absent", text |-> ""]

OtherInput == [kind |-> "other", text |-> ""]

Returned(v) == [outcome |-> "return", value |-> v]

Thrown == [outcome |-> "throw", value |-> "TypeError"]

\* !podContent
Falsy(input) == input.kind = "absent" \/ (input.kind = "string" /\ input.text = "")

convertPodToReadme(input) ==
    IF Falsy(input) THEN Returned("")
    ELSE IF input.kind # "string" THEN Thrown
    ELSE Returned(Render(input.text))

-----------------------------------------------------------------------------
(* extractModuleDescription                                                *)

\* first position >= i holding whitespace, Len(s)+1 if none: the end of \S+
NonSpaceEnd(s, i) == FirstOr({j \in i..Len(s) : IsSpace(Ch(s, j))}, Len(s) + 1)

\* /^\s*\S+\s*-\s*(.+)$/m tried at the line start p: the position where
\* group 1 starts, 0 when there is no match.  \s* and \S+ are greedy; \S+
\* gives characters back until a '-' follows it, and (.+) needs one
\* character on the line where the whitespace after the '-' ends.
NameDashGroupStart(s, p) ==
    LET a == SkipSpace(s, p)
        e == NonSpaceEnd(s, a)
        GroupAfter(c) ==
            LET d == SkipSpace(s, c + 1)
                back == {j \in (c + 1)..(d - 1) : Ch(s, j) # "\n"}
            IN IF d <= Len(s) THEN d
               ELSE IF back # {} THEN SetMax(back) ELSE 0
        DashAfter(b) ==
            LET c == IF b = e THEN SkipSpace(s, b) ELSE b
            IN IF c <= Len(s) /\ Ch(s, c) = "-" THEN GroupAfter(c) ELSE 0
        ends == {b \in (a + 1)..e : DashAfter(b) # 0}
    IN IF a > Len(s) \/ ends = {} THEN 0 ELSE DashAfter(SetMax(ends))

\* nameContent.match(/^\s*\S+\s*-\s*(.+)$/m): group 1 of the leftmost match
descriptionMatch(nameContent) ==
    LET starts == {p \in 1..Len(nameContent) :
                      /\ p = 1 \/ Ch(nameContent, p - 1) = "\n"
                      /\ NameDashGroupStart(nameContent, p) # 0}
    IN IF starts = {} THEN Undefined
       ELSE LET d == NameDashGroupStart(nameContent, SetMin(starts))
            IN Some(SubSeq(nameContent, d, LineEnd(nameContent, d) - 1))

\* trimmed.match(/^\S+$/): the line is one word
IsSingleWord(trimmed) == trimmed # "" /\ NonSpaceEnd(trimmed, 1) > Len(trimmed)

\* the loop over the lines of the NAME section: the first line that is
\* not empty and not one word
RECURSIVE FirstPhrase(_, _)
FirstPhrase(lines, k) ==
    IF k > Len(lines) THEN Undefined
    ELSE LET trimmed == Trim(lines[k])
         IN IF trimmed # "" /\ ~IsSingleWord(trimmed) THEN Some(trimmed)
            ELSE FirstPhrase(lines, k + 1)

\* s.replace(/\s+/g, ' ')
RECURSIVE CollapseSpacesFrom(_, _)
CollapseSpacesFrom(s, i) ==
    IF i > Len(s) THEN ""
    ELSE IF IsSpace(Ch(s, i)) THEN " " \o CollapseSpacesFrom(s, SkipSpace(s, i))
    ELSE LET e == NonSpaceEnd(s, i) IN SubSeq(s, i, e - 1) \o CollapseSpacesFrom(s, e)

CollapseSpaces(s) == CollapseSpacesFrom(s, 1)

\* descContent.split('\n\n')[0]
FirstParagraph(s) ==
    LET i == IndexOf(s, "\n\n") IN IF i = -1 THEN s ELSE Substring(s, 0, i)

DefaultDescription == "Perl module"

\* what the NAME section gives: a value, or Undefined to go on
NameDescription(podContent) ==
    LET nameMatch == SectionMatch(podContent, "NAME", FALSE)
    IN IF ~nameMatch.found THEN Undefined
       ELSE LET nameContent == Trim(nameMatch.text)
                dm == descriptionMatch(nameContent)
            IN IF dm # Undefined THEN Some(Trim(dm[1]))
               ELSE FirstPhrase(SplitLines(nameContent), 1)

extractModuleDescription(podContent) ==
    LET fromName == NameDescription(podContent)
        descMatch == SectionMatch(podContent, "DESCRIPTION", FALSE)
    IN IF fromName # Undefined THEN fromName[1]
       ELSE IF descMatch.found
            THEN Trim(CollapseSpaces(FirstParagraph(Trim(descMatch.text))))
       ELSE DefaultDescription

-----------------------------------------------------------------------------
(* validateModuleName (src/utils/validators.ts)                            *)

Digits == {"0", "1", "2", "3", "4", "5", "6", "7", "8", "9"}

IsLetter(c) == c \in LowerChars \/ c \in UpperChars

\* the class [a-zA-Z0-9:_-]
IsNameChar(c) == IsLetter(c) \/ c \in Digits \/ c \in {":", "_", "-"}

\* /^[a-zA-Z][a-zA-Z0-9:_-]*$/.test(name)
validNameRegex(name) ==
    /\ Len(name) >= 1
    /\ IsLetter(Ch(name, 1))
    /\ \A i \in 2..Len(name) : IsNameChar(Ch(name, i))

EndsWith(s, lit) == Len(s) >= Len(lit) /\ StartsAt(s, Len(s) - Len(lit) + 1, lit)

LengthLimit == 100

\* throw new CpanPackageReadmeMcpError(message, 'INVALID_MODULE_NAME')
InvalidModuleName(why) ==
    [outcome |-> "throw", code |-> "INVALID_MODULE_NAME", value |-> why]

\* the checks made on the trimmed name, in the order of the code
CheckTrimmedName(trimmedName) ==
    IF Len(trimmedName) = 0 THEN InvalidModuleName("empty")
    ELSE IF Includes(trimmedName, " ") THEN InvalidModuleName("spaces")
    ELSE IF Includes(trimmedName, "/") THEN InvalidModuleName("slashes")
    ELSE IF Includes(trimmedName, ".") THEN InvalidModuleName("dots")
    ELSE IF Includes(trimmedName, ":::") THEN InvalidModuleName("triple colons")
    ELSE IF StartsAt(trimmedName, 1, "::") \/ EndsWith(trimmedName, "::")
         THEN InvalidModuleName("starts or ends with ::")
    ELSE IF ~validNameRegex(trimmedName) THEN InvalidModuleName("invalid characters")
    ELSE IF Len(trimmedName) > LengthLimit THEN InvalidModuleName("too long")
    ELSE Returned(trimmedName)

\* validateModuleName with the pattern tested on the name as it was given
validateModuleNameUntrimmed(name) ==
    IF name.kind # "string" THEN InvalidModuleName("not a string")
    ELSE IF ~validNameRegex(name.text) THEN InvalidModuleName("invalid characters")
    ELSE CheckTrimmedName(Trim(name.text))

validateModuleName(name) ==
    IF name.kind # "string" THEN InvalidModuleName("not a string")
    ELSE CheckTrimmedName(Trim(name.text))

\* validateBoolean(value, fieldName) ?? dflt, on a flag that is true, false
\* or omitted
Flags == {"true", "false", "omitted"}

FlagOr(flag, dflt) == IF flag = "omitted" THEN dflt ELSE flag = "true"

-----------------------------------------------------------------------------
(* The documents the calls are made on.  A document is a concatenation of  *)
(* at most MaxChunks paragraphs of one family: a page with a synopsis, a   *)
(* page with an examples section, a page with lists and directives, a page *)
(* with headings and formatting codes, a page with a NAME and a            *)
(* DESCRIPTION section, or a page whose sections are headed and ended in   *)
(* several ways.                                                           *)

MaxChunks == 3

SynopsisHeading == "=head1 SYNOPSIS\n\n"

ConnectBlock == "  use DBI;\n  my $dbh = DBI->connect(...);\n"

ExamplesHeading == "=head1 EXAMPLES\n\n"

BasicUsage == "=head2 Basic Usage\n\n  use Test::Module;\n  my $obj = Test::Module->new();\n\n"

AdvancedUsage == "=head2 Advanced Usage\n\n  print $obj->run();\n\n"

SomeText == "Some text here.\n"

ShortNote == "See below.\n"

IndentedProse == "  just some plain prose\n"

BlankLine == "\n"

VariableProse == "Set $x to run it.\n"

NameHeading == "=head1 NAME\n\n"

ItemLine == "=item * First item\n"

CutLine == "=cut\n"

OverLine == "=over 4\n"

TwoBlankLines == "\n\n"

SpaceCutLine == " =cut\n"

CodeLine == "  use DBI;\n"

BareHeading == "=head2\n\n"

LowerSynopsis == "=head1 synopsis\n\n"

SubSynopsis == "=head2 SYNOPSIS\n\n"

NestedBlock == "  if ($ok) {\n      return 1;\n  }\n"

IndentedPod == "  =head2 Methods\n  =item B<new>\n"

MethodsHeading == "=head3 Methods\n\n"

NestedCodes == "Use C<I<x>> here.\n"

InlineFormats == "This is I<italic> and B<bold>.\n"

NameLine == "DBI - Database independent interface for Perl\n\n"

BareName == "DBI\n\n"

DescriptionHeading == "=head1 DESCRIPTION\n\n"

DescriptionText ==
    "This is a database interface module that provides\na standard way to access databases.\n\n"

Families == {"synopsis", "examples", "render", "markup", "name", "sections"}

Chunks(f) ==
    CASE f = "synopsis" ->
            {SynopsisHeading, ConnectBlock, SomeText, IndentedProse, BlankLine, VariableProse}
      [] f = "examples" ->
            {ExamplesHeading, BasicUsage, AdvancedUsage, ShortNote, ConnectBlock}
      [] f = "render" ->
            {NameHeading, ItemLine, CutLine, OverLine, TwoBlankLines, SpaceCutLine, CodeLine}
      [] f = "markup" ->
            {BareHeading, MethodsHeading, SomeText, CodeLine, NestedCodes, InlineFormats,
             IndentedPod}
      [] f = "name" ->
            {NameHeading, NameLine, BareName, DescriptionHeading, DescriptionText,
             SynopsisHeading}
      [] f = "sections" ->
            {SynopsisHeading, LowerSynopsis, SubSynopsis, NestedBlock, MethodsHeading,
             CutLine}

-----------------------------------------------------------------------------
(* The tools getPackageReadme and getPackageInfo: what they are called     *)
(* with, what MetaCPAN answers, and the responses they build.              *)

\* the module names the tools are called with: one that is valid and one
\* that validateModuleName refuses
PackageNames == {"DBI", "My Module"}

\* params.version: omitted, or a version
Versions == {"omitted", "1.40"}

\* createCacheKey.moduleReadme and createCacheKey.moduleInfo
moduleReadmeKey(name) == "mod_readme:" \o name

moduleInfoKey(name) == "mod_info:" \o name

CacheKeys == {moduleReadmeKey("DBI"), moduleInfoKey("DBI")}

\* cache.get gives null
NoEntry == <<>>

NoCall ==
    [tool |-> "none", package_name |-> "", version |-> "omitted",
     include_examples |-> "omitted", include_dependencies |-> "omitted",
     include_dev_dependencies |-> "omitted"]

NoReply == [kind |-> "none"]

\* how a fetch ends: a response that is ok, a 404, a 429, a 500, or no
\* response at all (the request is aborted after REQUEST_TIMEOUT, or the
\* network fails)
Outcomes == {"ok", "404", "429", "500", "timeout"}

\* the module MetaCPAN knows: the fields of its /module response
ModuleVersion == "1.643"

ModuleAbstract == "Database independent interface for Perl"

ModuleAuthor == "TIMB"

ModuleDistribution == "DBI"

ModuleRequires == {"perl", "Carp"}

ModuleTestRequires == {"perl", "Test::More"}

\* its documentation
ModulePod == SynopsisHeading \o ConnectBlock

\* parseUsageExamples on a string: the three passes, none of which raises
parseUsageExamples(podContent) ==
    extractSynopsisExamples(podContent)
        \o extractExampleSectionExamples(podContent)
        \o extractCodeBlockExamples(podContent)

createBasicReadme(packageName, version, description) ==
    "# " \o packageName \o "\n\n" \o description \o "\n\n## Installation\n\n### Using CPAN\n\n"
    \o Fence \o "bash\ncpan " \o packageName \o "\n" \o Fence \o "\n\n### Using cpanm\n\n"
    \o Fence \o "bash\ncpanm " \o packageName \o "\n" \o Fence
    \o "\n\n### Using cpanfile\n\nAdd to your cpanfile:\n\n"
    \o Fence \o "perl\nrequires '" \o packageName \o "';\n" \o Fence \o "\n\n## Usage\n\n"
    \o Fence \o "perl\nuse " \o packageName \o ";\n\n# Add your usage example here\n" \o Fence
    \o "\n\n## Version\n\nCurrent version: " \o version \o "\n\n## Documentation\n\n"
    \o "For detailed documentation, please refer to the module's POD documentation or visit MetaCPAN.\n"

\* params.version || 'latest'
VersionOrLatest(v) == IF v = "omitted" THEN "latest" ELSE v

\* the response of getPackageReadme for a module that was found; podContent
\* is Undefined for null
ReadmeResponse(packageName, version, podContent, includeExamples) ==
    [kind |-> "response", tool |-> "readme",
     package_name |-> packageName,
     version |-> IF version = "latest" THEN ModuleVersion ELSE version,
     description |-> ModuleAbstract,
     readme_content |->
         IF podContent # Undefined /\ podContent[1] # ""
         THEN convertPodToReadme(StringInput(podContent[1])).value
         ELSE createBasicReadme(packageName, ModuleVersion, ModuleAbstract),
     usage_examples |->
         IF podContent # Undefined /\ podContent[1] # "" /\ includeExamples
         THEN parseUsageExamples(podContent[1])
         ELSE <<>>,
     exists |-> TRUE]

\* the response of the inner catch clause of getPackageReadme
ReadmeNotFound(packageName, version) ==
    [kind |-> "response", tool |-> "readme",
     package_name |-> packageName, version |-> version, description |-> "",
     readme_content |-> "", usage_examples |-> <<>>, exists |-> FALSE]

\* Object.keys(requires).filter(dep => dep !== 'perl')
WithoutPerl(requires) == {dep \in requires : dep # "perl"}

\* the response of getPackageInfo for a module that was found
InfoResponse(packageName, includeDependencies, includeDevDependencies) ==
    [kind |-> "response", tool |-> "info",
     package_name |-> packageName,
     latest_version |-> ModuleVersion,
     description |-> ModuleAbstract,
     author |-> ModuleAuthor,
     dependencies |-> IF includeDependencies THEN Some(WithoutPerl(ModuleRequires))
                      ELSE Undefined,
     dev_dependencies |-> IF includeDevDependencies
                          THEN Some(WithoutPerl(ModuleTestRequires)) ELSE Undefined,
     distribution |-> ModuleDistribution,
     exists |-> TRUE]

\* the response of the inner catch clause of getPackageInfo
InfoNotFound(packageName) ==
    [kind |-> "response", tool |-> "info",
     package_name |-> packageName, latest_version |-> "", description |-> "",
     author |-> "", dependencies |-> Undefined, dev_dependencies |-> Undefined,
     distribution |-> "", exists |-> FALSE]

\* handleApiError(error, ...) raises: the call is rejected
ErrorReply(code) == [kind |-> "error", code |-> code]

-----------------------------------------------------------------------------
(* State                                                                   *)

VARIABLES
    family,       \* the family the document is drawn from
    nchunks,      \* number of paragraphs of the document
    input,        \* the argument podContent of the call
    pc,           \* position of the caller / of parseUsageExamples
    examples,     \* the local array examples of parseUsageExamples
    parseResult,  \* what parseUsageExamples gave back
    readme,       \* what convertPodToReadme gave back
    warned,       \* logger.warn('Failed to parse usage examples:') was called
    moduleDescription  \* what extractModuleDescription gave back

\* the calls made so far on the one exported instance readmeParser
VARIABLES
    history       \* the finished calls: operation, argument and result

\* the tools and the cache they share
VARIABLES
    cache,        \* the entries of the shared MemoryCache, by key
    call,         \* the parameters of the tool call in progress or last made
    tpc,          \* position of the tool call
    attempts,     \* fetch attempts made for the request in progress
    failure,      \* how the last fetch of the call failed, "none" if it did not
    reply,        \* what the tool call gave to its caller
    podCall       \* the call of getModulePod: its fetches and what it gave back

\* validateModuleName
VARIABLES
    moduleName,   \* the argument of validateModuleName
    validation    \* what validateModuleName gave back

parserVars == <<family, nchunks, input, pc, examples, parseResult, readme, warned,
                moduleDescription, history>>

toolVars == <<cache, call, tpc, attempts, failure, reply, podCall>>

nameVars == <<moduleName, validation>>

otherVars == <<toolVars, nameVars, history>>

vars == <<parserVars, toolVars, nameVars>>

NotCalled == [outcome |-> "none", value |-> <<>>]

NotConverted == [outcome |-> "none", value |-> ""]

\* getModulePod has not been called
NoPodCall == [outcome |-> "none", fetches |-> <<>>, value |-> <<>>]

\* the state of the tools before any call: an empty cache
ToolsIdle ==
    /\ cache = [k \in CacheKeys |-> NoEntry]
    /\ call = NoCall
    /\ tpc = "idle"
    /\ attempts = 0
    /\ failure = "none"
    /\ reply = NoReply
    /\ podCall = NoPodCall

\* the state before validateModuleName is called
NameIdle ==
    /\ moduleName = StringInput("")
    /\ validation = NotConverted

Init ==
    /\ family \in Families
    /\ nchunks = 0
    /\ input = StringInput("")
    /\ pc = "edit"
    /\ examples = <<>>
    /\ parseResult = NotCalled
    /\ readme = NotConverted
    /\ warned = FALSE
    /\ moduleDescription = NotConverted
    /\ history = <<>>
    /\ ToolsIdle
    /\ NameIdle

\* the document grows by one paragraph
AppendChunk ==
    /\ pc = "edit" /\ input.kind = "string" /\ nchunks < MaxChunks
    /\ \E c \in Chunks(family) : input' = StringInput(input.text \o c)
    /\ nchunks' = nchunks + 1
    /\ UNCHANGED <<moduleDescription, otherVars, family, pc, examples, parseResult, readme, warned>>

\* the caller has no document: null or undefined is passed
PassAbsent ==
    /\ pc = "edit" /\ nchunks = 0 /\ input.kind = "string"
    /\ input' = AbsentInput
    /\ UNCHANGED <<moduleDescription, otherVars, family, nchunks, pc, examples, parseResult, readme, warned>>

\* the caller passes a value that is not a string (a number, an object)
PassOther ==
    /\ pc = "edit" /\ nchunks = 0 /\ input.kind = "string"
    /\ input' = OtherInput
    /\ UNCHANGED <<moduleDescription, otherVars, family, nchunks, pc, examples, parseResult, readme, warned>>

\* CallParse on a parser that keeps the array examples as a field of the
\* instance and never empties it
CallParseShared ==
    /\ pc = "edit"
    /\ pc' = "synopsis"
    /\ examples' = examples
    /\ UNCHANGED <<moduleDescription, otherVars, family, nchunks, input, parseResult, readme, warned>>

\* parseUsageExamples is entered: const examples = []
CallParse ==
    /\ pc = "edit"
    /\ pc' = "synopsis"
    /\ examples' = <<>>
    /\ UNCHANGED <<moduleDescription, otherVars, family, nchunks, input, parseResult, readme, warned>>

\* podContent.match raises on a value that is not a string
PassRaises(in) == in.kind # "string"

\* const synopsisExamples = ...; examples.push(...synopsisExamples)
StepSynopsis ==
    /\ pc = "synopsis" /\ ~PassRaises(input)
    /\ examples' = examples \o extractSynopsisExamples(input.text)
    /\ pc' = "examples"
    /\ UNCHANGED <<moduleDescription, otherVars, family, nchunks, input, parseResult, readme, warned>>

\* const exampleSectionExamples = ...; examples.push(...exampleSectionExamples)
StepExamples ==
    /\ pc = "examples" /\ ~PassRaises(input)
    /\ examples' = examples \o extractExampleSectionExamples(input.text)
    /\ pc' = "codeblocks"
    /\ UNCHANGED <<moduleDescription, otherVars, family, nchunks, input, parseResult, readme, warned>>

\* StepCodeBlocks with a push that skips a block some earlier example holds
StepCodeBlocksDedup ==
    /\ pc = "codeblocks" /\ ~PassRaises(input)
    /\ examples' = examples \o SelectSeq(extractCodeBlockExamples(input.text),
                                         LAMBDA e : \A i \in 1..Len(examples) : examples[i].code # e.code)
    /\ pc' = "return"
    /\ UNCHANGED <<moduleDescription, otherVars, family, nchunks, input, parseResult, readme, warned>>

\* const codeBlockExamples = ...; examples.push(...codeBlockExamples)
StepCodeBlocks ==
    /\ pc = "codeblocks" /\ ~PassRaises(input)
    /\ examples' = examples \o extractCodeBlockExamples(input.text)
    /\ pc' = "return"
    /\ UNCHANGED <<moduleDescription, otherVars, family, nchunks, input, parseResult, readme, warned>>

\* A pass raises inside the try block: podContent is not a string, or the
\* engine raises a RangeError (the backtracking of a regular expression or
\* the spread of examples.push(...) exhausts the stack on a text the model
\* abstracts).  Control goes to the catch clause.
ThrowInSynopsis ==
    /\ pc = "synopsis"
    /\ pc' = "catch"
    /\ UNCHANGED <<moduleDescription, otherVars, family, nchunks, input, examples, parseResult, readme, warned>>

ThrowInExamples ==
    /\ pc = "examples"
    /\ pc' = "catch"
    /\ UNCHANGED <<moduleDescription, otherVars, family, nchunks, input, examples, parseResult, readme, warned>>

ThrowInCodeBlocks ==
    /\ pc = "codeblocks"
    /\ pc' = "catch"
    /\ UNCHANGED <<moduleDescription, otherVars, family, nchunks, input, examples, parseResult, readme, warned>>

\* return examples
ParseReturn ==
    /\ pc = "return"
    /\ parseResult' = Returned(examples)
    /\ pc' = "done"
    /\ UNCHANGED <<moduleDescription, otherVars, family, nchunks, input, examples, readme, warned>>

\* catch (error) { logger.warn(...); return [] }
ParseCatch ==
    /\ pc = "catch"
    /\ warned' = TRUE
    /\ parseResult' = Returned(<<>>)
    /\ pc' = "done"
    /\ UNCHANGED <<moduleDescription, otherVars, family, nchunks, input, examples, readme>>

\* a call of extractModuleDescription; podContent.match raises on a value
\* that is not a string
CallDescribe ==
    /\ pc = "edit"
    /\ moduleDescription' = (IF input.kind # "string" THEN Thrown
                              ELSE Returned(extractModuleDescription(input.text)))
    /\ pc' = "done"
    /\ UNCHANGED <<otherVars, family, nchunks, input, examples, parseResult, readme, warned>>

\* a call of convertPodToReadme
CallConvert ==
    /\ pc = "edit"
    /\ readme' = convertPodToReadme(input)
    /\ pc' = "done"
    /\ UNCHANGED <<moduleDescription, otherVars, family, nchunks, input, examples, parseResult, warned>>

Next ==
    \/ AppendChunk
    \/ PassAbsent
    \/ PassOther
    \/ CallParse
    \/ StepSynopsis
    \/ StepExamples
    \/ StepCodeBlocks
    \/ ThrowInSynopsis
    \/ ThrowInExamples
    \/ ThrowInCodeBlocks
    \/ ParseReturn
    \/ ParseCatch
    \/ CallConvert
    \/ CallDescribe

Spec == Init /\ [][Next]_vars

-----------------------------------------------------------------------------
(* A sequence of calls on the one instance readmeParser.  The methods are  *)
(* synchronous, so a call runs to its end before the next one starts; what *)
(* one call leaves behind is what the next one finds.                      *)

MaxCalls == 2

\* the documents the callers pass: a page with a NAME and a SYNOPSIS
\* section, a page with an EXAMPLES section, and a page with formatting
\* codes and a code line
SharedDocs ==
    {NameHeading \o NameLine \o SynopsisHeading \o ConnectBlock,
     ExamplesHeading \o BasicUsage \o ShortNote,
     MethodsHeading \o InlineFormats \o CodeLine}

\* the operation of the call that has just ended, and what it gave back
FinishedCall ==
    IF parseResult.outcome # "none"
    THEN [op |-> "parseUsageExamples", text |-> input.text, result |-> parseResult]
    ELSE IF readme.outcome # "none"
    THEN [op |-> "convertPodToReadme", text |-> input.text, result |-> readme]
    ELSE [op |-> "extractModuleDescription", text |-> input.text,
          result |-> moduleDescription]

CallsInit ==
    /\ family = "synopsis"
    /\ nchunks = 0
    /\ input \in {StringInput(d) : d \in SharedDocs}
    /\ pc = "edit"
    /\ examples = <<>>
    /\ parseResult = NotCalled
    /\ readme = NotConverted
    /\ warned = FALSE
    /\ moduleDescription = NotConverted
    /\ history = <<>>
    /\ ToolsIdle
    /\ NameIdle

\* The caller takes the result of the call that has ended and is about to
\* make another call, on the same document or on another one.  Nothing of
\* the parser is touched: the local array of the ended call is whatever the
\* call left.
NextCall ==
    /\ pc = "done" /\ Len(history) < MaxCalls
    /\ history' = Append(history, FinishedCall)
    /\ \E d \in SharedDocs : input' = StringInput(d)
    /\ parseResult' = NotCalled
    /\ readme' = NotConverted
    /\ moduleDescription' = NotConverted
    /\ pc' = "edit"
    /\ UNCHANGED <<family, nchunks, examples, warned, toolVars, nameVars>>

CallsNext ==
    \/ NextCall
    \/ CallParse
    \/ StepSynopsis
    \/ StepExamples
    \/ StepCodeBlocks
    \/ ParseReturn
    \/ CallConvert
    \/ CallDescribe

CallsSpec == CallsInit /\ [][CallsNext]_vars

-----------------------------------------------------------------------------
(* The tool calls.  One call is in progress at a time; it is modelled from *)
(* one await to the next.                                                  *)

\* the parser is not in use
ParserIdle ==
    /\ family = "synopsis"
    /\ nchunks = 0
    /\ input = StringInput("")
    /\ pc = "edit"
    /\ examples = <<>>
    /\ parseResult = NotCalled
    /\ readme = NotConverted
    /\ warned = FALSE
    /\ moduleDescription = NotConverted
    /\ history = <<>>

ToolInit == ParserIdle /\ ToolsIdle /\ NameIdle

\* no call is in progress
Callable == tpc \in {"idle", "replied"}

\* getPackageReadme, lines 9-30: validation, the look in the cache, and the
\* request for the module information
CallReadme ==
    /\ Callable
    /\ \E n \in PackageNames, v \in Versions, ie \in Flags :
          LET validated == validateModuleName(StringInput(n))
              cached == IF validated.outcome = "return"
                        THEN cache[moduleReadmeKey(validated.value)] ELSE NoEntry
          IN /\ call' = [tool |-> "readme", package_name |-> n, version |-> v,
                         include_examples |-> ie, include_dependencies |-> "omitted",
                         include_dev_dependencies |-> "omitted"]
             /\ IF validated.outcome = "throw"
                THEN reply' = ErrorReply(validated.code) /\ tpc' = "replied"
                ELSE IF cached # NoEntry
                     THEN reply' = cached[1] /\ tpc' = "replied"
                     ELSE reply' = NoReply /\ tpc' = "readme_info"
    /\ attempts' = 0
    /\ failure' = "none"
    /\ podCall' = NoPodCall
    /\ UNCHANGED <<cache, parserVars, nameVars>>

\* getPackageReadme, lines 30-58: getModuleInfo makes its fetch (lines 32-55
\* of metacpan-api.ts); whatever it raises, the catch clause answers that
\* the module does not exist
ReadmeModuleInfo ==
    /\ tpc = "readme_info"
    /\ \E o \in Outcomes :
          /\ failure' = (IF o = "ok" THEN "none" ELSE o)
          /\ IF o = "ok"
             THEN tpc' = "pod_info" /\ reply' = reply /\ attempts' = 0
             ELSE /\ tpc' = "replied"
                  /\ attempts' = attempts + 1
                  /\ reply' = ReadmeNotFound(Trim(call.package_name),
                                             VersionOrLatest(call.version))
    /\ UNCHANGED <<cache, call, podCall, parserVars, nameVars>>

\* getPackageReadme, lines 63-123, once getModulePod has given podContent:
\* the response is built, stored in the cache and returned
FinishReadme(podContent) ==
    LET packageName == Trim(call.package_name)
        result == ReadmeResponse(packageName, VersionOrLatest(call.version), podContent,
                                 FlagOr(call.include_examples, TRUE))
    IN /\ cache' = [cache EXCEPT ![moduleReadmeKey(packageName)] = Some(result)]
       /\ reply' = result
       /\ tpc' = "replied"

\* one fetch of getModulePod: how it ended and whether the response held
\* a pod
Fetched(o, withPod) == [outcome |-> o, pod |-> o = "ok" /\ withPod]

\* PodModuleInfo without the try block of getModulePod: what getModuleInfo
\* raises leaves getModulePod and is caught by getPackageReadme
PodModuleInfoUncaught ==
    /\ tpc = "pod_info"
    /\ \E o \in Outcomes, withPod \in BOOLEAN :
          /\ failure' = (IF o = "ok" THEN "none" ELSE o)
          /\ IF o = "ok" /\ ~withPod
             THEN /\ tpc' = "pod_fetch" /\ attempts' = 0 /\ UNCHANGED <<cache, reply>>
                  /\ podCall' = [outcome |-> "pending", fetches |-> <<Fetched(o, withPod)>>,
                                 value |-> Undefined]
             ELSE IF o = "ok"
             THEN /\ attempts' = attempts + 1
                  /\ podCall' = [outcome |-> "return", fetches |-> <<Fetched(o, withPod)>>,
                                 value |-> Some(ModulePod)]
                  /\ FinishReadme(Some(ModulePod))
             ELSE /\ attempts' = attempts + 1
                  /\ podCall' = [outcome |-> "throw", fetches |-> <<Fetched(o, withPod)>>,
                                 value |-> Undefined]
                  /\ reply' = ErrorReply("API_ERROR") /\ tpc' = "replied"
                  /\ UNCHANGED cache
    /\ UNCHANGED <<call, parserVars, nameVars>>

\* getModulePod, lines 109-113: getModuleInfo makes its fetch; the response
\* carries a pod or not; a failure makes getModulePod give null
PodModuleInfo ==
    /\ tpc = "pod_info"
    /\ \E o \in Outcomes, withPod \in BOOLEAN :
          /\ failure' = (IF o = "ok" THEN "none" ELSE o)
          /\ IF o = "ok" /\ ~withPod
             THEN /\ tpc' = "pod_fetch" /\ attempts' = 0 /\ UNCHANGED <<cache, reply>>
                  /\ podCall' = [outcome |-> "pending", fetches |-> <<Fetched(o, withPod)>>,
                                 value |-> Undefined]
             ELSE LET podContent == IF o = "ok" THEN Some(ModulePod) ELSE Undefined
                  IN /\ attempts' = attempts + 1
                     /\ podCall' = [outcome |-> "return",
                                    fetches |-> <<Fetched(o, withPod)>>,
                                    value |-> podContent]
                     /\ FinishReadme(podContent)
    /\ UNCHANGED <<call, parserVars, nameVars>>

\* getModulePod, lines 116-137: the fetch of /pod; podData.pod || null
PodFetch ==
    /\ tpc = "pod_fetch"
    /\ \E o \in Outcomes, withPod \in BOOLEAN :
          LET podContent == IF o = "ok" /\ withPod THEN Some(ModulePod) ELSE Undefined
          IN /\ failure' = (IF o = "ok" THEN "none" ELSE o)
             /\ attempts' = attempts + 1
             /\ podCall' = [outcome |-> "return",
                            fetches |-> Append(podCall.fetches, Fetched(o, withPod)),
                            value |-> podContent]
             /\ FinishReadme(podContent)
    /\ UNCHANGED <<call, parserVars, nameVars>>

\* getPackageInfo, lines 8-27: validation, the look in the cache, and the
\* request for the module information
CallInfo ==
    /\ Callable
    /\ \E n \in PackageNames, dep \in Flags, dev \in Flags :
          LET validated == validateModuleName(StringInput(n))
              cached == IF validated.outcome = "return"
                        THEN cache[moduleInfoKey(validated.value)] ELSE NoEntry
          IN /\ call' = [tool |-> "info", package_name |-> n, version |-> "omitted",
                         include_examples |-> "omitted", include_dependencies |-> dep,
                         include_dev_dependencies |-> dev]
             /\ IF validated.outcome = "throw"
                THEN reply' = ErrorReply(validated.code) /\ tpc' = "replied"
                ELSE IF cached # NoEntry
                     THEN reply' = cached[1] /\ tpc' = "replied"
                     ELSE reply' = NoReply /\ tpc' = "info_fetch"
    /\ attempts' = 0
    /\ failure' = "none"
    /\ podCall' = NoPodCall
    /\ UNCHANGED <<cache, parserVars, nameVars>>

\* InfoModuleInfo with a catch clause that stores its response in the
\* cache before returning it
InfoModuleInfoCacheAll ==
    /\ tpc = "info_fetch"
    /\ \E o \in Outcomes :
          LET packageName == Trim(call.package_name)
              result == IF o = "ok"
                        THEN InfoResponse(packageName, FlagOr(call.include_dependencies, TRUE),
                                          FlagOr(call.include_dev_dependencies, FALSE))
                        ELSE InfoNotFound(packageName)
          IN /\ failure' = (IF o = "ok" THEN "none" ELSE o)
             /\ attempts' = attempts + 1
             /\ tpc' = "replied"
             /\ cache' = [cache EXCEPT ![moduleInfoKey(packageName)] = Some(result)]
             /\ reply' = result
    /\ UNCHANGED <<call, podCall, parserVars, nameVars>>

\* getPackageInfo, lines 27-85: getModuleInfo makes its fetch; the response
\* is built, stored in the cache and returned, or the catch clause answers
\* that the module does not exist
InfoModuleInfo ==
    /\ tpc = "info_fetch"
    /\ \E o \in Outcomes :
          LET packageName == Trim(call.package_name)
              result == InfoResponse(packageName, FlagOr(call.include_dependencies, TRUE),
                                     FlagOr(call.include_dev_dependencies, FALSE))
          IN /\ failure' = (IF o = "ok" THEN "none" ELSE o)
             /\ attempts' = attempts + 1
             /\ tpc' = "replied"
             /\ IF o = "ok"
                THEN /\ cache' = [cache EXCEPT ![moduleInfoKey(packageName)] = Some(result)]
                     /\ reply' = result
                ELSE /\ reply' = InfoNotFound(packageName)
                     /\ UNCHANGED cache
    /\ UNCHANGED <<call, podCall, parserVars, nameVars>>

\* time passes: an entry of the cache reaches its TTL and is gone
Expire ==
    /\ Callable
    /\ \E k \in CacheKeys :
          /\ cache[k] # NoEntry
          /\ cache' = [cache EXCEPT ![k] = NoEntry]
    /\ UNCHANGED <<call, tpc, attempts, failure, reply, podCall, parserVars, nameVars>>

ToolNext ==
    \/ CallReadme
    \/ ReadmeModuleInfo
    \/ PodModuleInfo
    \/ PodFetch
    \/ CallInfo
    \/ InfoModuleInfo
    \/ Expire

ToolSpec == ToolInit /\ [][ToolNext]_vars

-----------------------------------------------------------------------------
(* Calls of validateModuleName on the names that can be typed with a small *)
(* alphabet, and on names of about LengthLimit characters.                 *)

MaxNameLen == 4

NameAlphabet == {"A", "1", ":", "_", " ", "/", ".", "@"}

\* c repeated k times
RECURSIVE Repeat(_, _)
Repeat(c, k) ==
    IF k = 0 THEN ""
    ELSE LET half == Repeat(c, k \div 2)
         IN half \o half \o (IF k % 2 = 1 THEN c ELSE "")

NameInit == ParserIdle /\ ToolsIdle /\ NameIdle

\* one more character of the name
TypeChar ==
    /\ validation = NotConverted /\ moduleName.kind = "string"
    /\ Len(moduleName.text) < MaxNameLen
    /\ \E c \in NameAlphabet : moduleName' = StringInput(moduleName.text \o c)
    /\ UNCHANGED <<validation, parserVars, toolVars>>

\* the name is made LengthLimit or LengthLimit + 1 characters long
PadName ==
    /\ validation = NotConverted /\ moduleName.kind = "string"
    /\ Len(moduleName.text) <= 1
    /\ \E n \in {LengthLimit, LengthLimit + 1} :
          moduleName' = StringInput(moduleName.text \o Repeat("A", n - Len(moduleName.text)))
    /\ UNCHANGED <<validation, parserVars, toolVars>>

\* the caller passes a value that is not a string
PassNonString ==
    /\ validation = NotConverted /\ moduleName = StringInput("")
    /\ moduleName' = OtherInput
    /\ UNCHANGED <<validation, parserVars, toolVars>>

\* a call of validateModuleName
Validate ==
    /\ validation = NotConverted
    /\ validation' = validateModuleName(moduleName)
    /\ UNCHANGED <<moduleName, parserVars, toolVars>>

NameNext ==
    \/ TypeChar
    \/ PadName
    \/ PassNonString
    \/ Validate

NameSpec == NameInit /\ [][NameNext]_vars

-----------------------------------------------------------------------------
(* Properties                                                              *)

\* parseUsageExamples returned from the try block on a string
ParsedNormally ==
    pc = "done" /\ parseResult.outcome = "return" /\ ~warned /\ input.kind = "string"

\* convertPodToReadme returned the rendering of a string
Rendered == pc = "done" /\ readme.outcome = "return" /\ input.kind = "string"

Titles(exs) == [i \in 1..Len(exs) |-> exs[i].title]

Codes(exs) == [i \in 1..Len(exs) |-> exs[i].code]

\* the first SYNOPSIS heading of the text is followed by a blank line and
\* the block 'use DBI;' / 'my $dbh = DBI->connect(...);'
SynopsisHasConnectBlock(text) ==
    /\ Includes(text, SynopsisHeading \o ConnectBlock)
    /\ IndexOf(text, SynopsisHeading) = IndexOf(text, SynopsisHeading \o ConnectBlock)

\* the indented blocks of the SYNOPSIS section, each with all its lines
SynopsisBlocks(text) ==
    LET m == SectionMatch(text, "SYNOPSIS", FALSE)
    IN IF m.found THEN extractPodCodeBlocks(m.text) ELSE <<>>

\* C1: for a SYNOPSIS section holding the block 'use DBI;' / 'my $dbh =
\* DBI->connect(...);' after a blank line, parseUsageExamples returns an
\* example titled 'Synopsis' whose code contains 'use DBI;'; and the
\* examples titled 'Synopsis' are the indented blocks of the section, each
\* with all its lines.
C1_SynopsisBlockIsExample ==
    ParsedNormally =>
        /\ SynopsisHasConnectBlock(input.text) =>
              \E i \in 1..Len(parseResult.value) :
                  /\ parseResult.value[i].title = "Synopsis"
                  /\ Includes(parseResult.value[i].code, "use DBI;")
        /\ Codes(SelectSeq(parseResult.value, LAMBDA e : e.title = "Synopsis"))
              = SynopsisBlocks(input.text)

SubSections == {BasicUsage, AdvancedUsage}

\* the text of the =head2 line that opens a sub-section
SubHeadingOf(sub) == SubSeq(sub, 8, LineEnd(sub, 1) - 1)

\* C2: for an EXAMPLES section with two sub-headings, each followed by one
\* indented block, parseUsageExamples returns exactly two examples, the
\* title of each being the sub-heading that precedes its block.
C2_TitlesAreSubHeadings ==
    ParsedNormally =>
        \A x, y \in SubSections :
            input.text = ExamplesHeading \o x \o y =>
                Titles(parseResult.value) = <<SubHeadingOf(x), SubHeadingOf(y)>>

\* C3: the list returned by parseUsageExamples is the Synopsis-pass examples,
\* then the Examples-pass examples, then the whole-document-pass examples,
\* nothing removed or reordered.
C3_PassesConcatenated ==
    ParsedNormally =>
        parseResult.value = extractSynopsisExamples(input.text)
                            \o extractExampleSectionExamples(input.text)
                            \o extractCodeBlockExamples(input.text)

\* a block reported by the Synopsis pass is reported again by the
\* whole-document pass
C3_ReportedTwice ==
    /\ ParsedNormally
    /\ \E i, j \in 1..Len(parseResult.value) :
          /\ i < j
          /\ parseResult.value[i].title = "Synopsis"
          /\ parseResult.value[j].title # "Synopsis"
          /\ parseResult.value[i].code = parseResult.value[j].code
          /\ parseResult.value[j] \in
                {extractCodeBlockExamples(input.text)[k] :
                    k \in 1..Len(extractCodeBlockExamples(input.text))}

\* the examples of the whole-document pass in the returned list
WholeDocumentExamples ==
    LET n == Len(extractSynopsisExamples(input.text))
             + Len(extractExampleSectionExamples(input.text))
    IN SubSeq(parseResult.value, n + 1, Len(parseResult.value))

\* the text of a run is longer than 10 characters and has a signature
Qualifies(code) == Len(code) > CodeMinLen /\ looksLikePerl(code)

\* every line of the text is blank or indented
OnlyIndentedLines(text) ==
    \A k \in 1..Len(SplitLines(text)) :
        SplitLines(text)[k] = "" \/ IsCodeLine(SplitLines(text)[k])

\* C4: the whole-document pass emits an example for an indented run (a
\* maximal run of lines with at least 2 leading columns) if and only if the
\* run's de-indented, trimmed text is longer than 10 characters and matches
\* a classifier signature, so an indented run of plain prose is not emitted;
\* an example with no text before it to take a title from is titled
\* 'Code Example'.
C4_EmitsQualifyingRuns ==
    ParsedNormally =>
        /\ Codes(WholeDocumentExamples) = SelectSeq(extractPodCodeBlocks(input.text), Qualifies)
        /\ OnlyIndentedLines(input.text) =>
              \A i \in 1..Len(WholeDocumentExamples) :
                  WholeDocumentExamples[i].title = "Code Example"

\* C5: for an empty or absent input convertPodToReadme returns the empty
\* string and parseUsageExamples returns the empty list.
C5_EmptyInputEmptyOutput ==
    (pc = "done" /\ Falsy(input)) =>
        /\ readme.outcome # "none" => readme = Returned("")
        /\ parseResult.outcome # "none" => parseResult = Returned(<<>>)

\* convertPodToReadme was called with null or undefined
C5_AbsentRendered == pc = "done" /\ input = AbsentInput /\ readme = Returned("")

\* C6: convertPodToReadme never raises: for every input, strings and values
\* of unexpected shape alike, it returns a string.
C6_ConvertNeverRaises ==
    (pc = "done" /\ readme.outcome # "none") => readme.outcome = "return"

\* the text has no heading, no directive and no indented line
NoPodStructure(text) ==
    \A k \in 1..Len(SplitLines(text)) :
        LET line == SplitLines(text)[k]
        IN line = "" \/ (~IsSpace(Ch(line, 1)) /\ Ch(line, 1) # "=")

\* C7: parseUsageExamples never propagates an exception; when a pass raised
\* it returns the empty list, whatever the earlier passes collected; and for
\* an input with no POD structure it returns the empty list.
C7_ExtractorFailSoft ==
    (pc = "done" /\ parseResult.outcome # "none") =>
        /\ parseResult.outcome = "return"
        /\ warned => parseResult.value = <<>>
        /\ (input.kind = "string" /\ NoPodStructure(input.text)) => parseResult.value = <<>>

\* what a directive line carries after its marker
DirectiveContent(line) ==
    LET d == CHOOSE d \in DirectiveMarkers : StartsAt(line, 1, d)
    IN Trim(SubSeq(line, Len(d) + 1, Len(line)))

\* C8: a line is removed as a directive only when it is exactly a bare
\* directive marker; a directive line that carries further content keeps
\* that content in the rendered output.
C8_DirectiveContentKept ==
    Rendered =>
        \A k \in 1..Len(SplitLines(input.text)) :
            LET line == SplitLines(input.text)[k]
            IN (IsDirectiveLine(line) /\ line \notin DirectiveMarkers) =>
                  Includes(readme.value, DirectiveContent(line))

\* C9: no line of the output of convertPodToReadme begins with a directive
\* marker.
C9_NoDirectiveLines ==
    Rendered =>
        \A k \in 1..Len(SplitLines(readme.value)) : ~IsDirectiveLine(SplitLines(readme.value)[k])

\* C10: the output of convertPodToReadme has no run of three or more
\* newlines and no leading or trailing whitespace, and collapsing the
\* collapsed text changes nothing.
C10_Normalized ==
    Rendered =>
        /\ ~Includes(readme.value, "\n\n\n")
        /\ Trim(readme.value) = readme.value
        /\ Collapse(Collapse(Assembled(input.text))) = Collapse(Assembled(input.text))

\* a run of four newlines inside the assembled text was collapsed
C10_RunCollapsed ==
    /\ Rendered
    /\ Includes(Trim(Assembled(input.text)), "\n\n\n\n")
    /\ Includes(readme.value, "\n\n")

\* index after the run of empty lines that starts at line k
RECURSIVE EmptyRun(_, _)
EmptyRun(lines, k) == IF k <= Len(lines) /\ lines[k] = "" THEN EmptyRun(lines, k + 1) ELSE k

\* the lines with every run of limit or more empty lines reduced to one
\* empty line, and every shorter run kept
RECURSIVE SqueezeFrom(_, _, _)
SqueezeFrom(lines, k, limit) ==
    IF k > Len(lines) THEN <<>>
    ELSE LET e == EmptyRun(lines, k)
         IN IF e - k >= limit THEN <<"">> \o SqueezeFrom(lines, e, limit)
            ELSE IF e > k THEN SubSeq(lines, k, e - 1) \o SqueezeFrom(lines, e, limit)
            ELSE <<lines[k]>> \o SqueezeFrom(lines, k + 1, limit)

\* C11 as stated: in the output of convertPodToReadme a run of three or
\* more consecutive blank lines of the assembled text is replaced by one
\* blank line, and an interior run of one or two blank lines is unchanged.
C11_ShortRunsKept ==
    Rendered =>
        SplitLines(readme.value) = SqueezeFrom(SplitLines(Trim(Assembled(input.text))), 1, 3)

\* C11 amended: a run of two or more consecutive blank lines (three or
\* more newlines) of the assembled text is replaced by one blank line, and
\* an interior single blank line is unchanged.
C11_RunsOfTwoCollapsed ==
    Rendered =>
        SplitLines(readme.value) = SqueezeFrom(SplitLines(Trim(Assembled(input.text))), 1, 2)

\* an interior run of exactly two blank lines was reduced to one blank line
C11_TwoBlankLinesCollapsed ==
    /\ Rendered
    /\ Includes(Trim(Assembled(input.text)), "\n\n\n")
    /\ ~Includes(Trim(Assembled(input.text)), "\n\n\n\n")
    /\ Includes(readme.value, "\n\n")
    /\ ~Includes(readme.value, "\n\n\n")

IsFenceLine(line) == line = Fence \o "perl" \/ line = Fence

\* number of maximal runs of indented lines
CodeRuns(lines) ==
    Cardinality({k \in 1..Len(lines) :
                    IsCodeLine(lines[k]) /\ (k = 1 \/ ~IsCodeLine(lines[k - 1]))})

\* the fence lines of a text, in order
FenceLines(text) == SelectSeq(SplitLines(text), IsFenceLine)

\* the lines of a text that are inside a fenced block, in order
RECURSIVE FencedFrom(_, _, _)
FencedFrom(lines, k, inside) ==
    IF k > Len(lines) THEN <<>>
    ELSE IF IsFenceLine(lines[k]) THEN FencedFrom(lines, k + 1, ~inside)
    ELSE (IF inside THEN <<lines[k]>> ELSE <<>>) \o FencedFrom(lines, k + 1, inside)

\* the indented lines of a text without their indentation, in order
IndentedLines(text) ==
    LET code == SelectSeq(SplitLines(text), IsCodeLine)
    IN [k \in 1..Len(code) |-> StripIndent(code[k])]

\* C12: convertPodToReadme wraps every maximal run of indented lines of its
\* input in one fenced block: there is one pair of fences per run, the
\* fence lines alternate between the opening and the closing fence, the
\* first opens and the last closes, and the fenced lines are the indented
\* lines (those that are not directives) of the input.
C12_RunsFenced ==
    Rendered =>
        LET fences == FenceLines(readme.value)
        IN /\ Len(fences) = 2 * CodeRuns(SplitLines(input.text))
           /\ \A i \in 1..Len(fences) :
                 fences[i] = (IF i % 2 = 1 THEN Fence \o "perl" ELSE Fence)
           /\ FencedFrom(SplitLines(readme.value), 1, FALSE)
                 = SelectSeq(IndentedLines(input.text), LAMBDA l : ~IsDirectiveLine(l))

HeadingLevels == 1..4

HeadingMarker(n) == "=head" \o ToString(n)

\* the line is a heading line '=headN text' of level n
IsHeadingLine(line, n) ==
    /\ StartsAt(line, 1, HeadingMarker(n) \o " ")
    /\ Trim(SubSeq(line, 8, Len(line))) # ""

\* what a heading line of level n is rendered as
RenderedHeading(line, n) == Hashes(n) \o " " \o Trim(SubSeq(line, 8, Len(line)))

\* C13: convertPodToReadme renders each heading line '=headN text' as N
\* '#' characters, one space and the text of that line; its output holds
\* no '=head1'..'=head4' marker; and every heading of the output is the
\* rendering of a heading line of the input, so that no heading takes its
\* text from a different line.
C13_HeadingsRendered ==
    Rendered =>
        LET inLines == SplitLines(input.text)
            outLines == SplitLines(readme.value)
        IN /\ \A k \in 1..Len(inLines) : \A n \in HeadingLevels :
                 IsHeadingLine(inLines[k], n) =>
                     \E j \in 1..Len(outLines) : outLines[j] = RenderedHeading(inLines[k], n)
           /\ \A n \in HeadingLevels : ~Includes(readme.value, HeadingMarker(n))
           /\ \A j \in 1..Len(outLines) :
                 StartsAt(outLines[j], 1, "#") =>
                     \E k \in 1..Len(inLines) : \E n \in HeadingLevels :
                         /\ IsHeadingLine(inLines[k], n)
                         /\ outLines[j] = RenderedHeading(inLines[k], n)

InlineLetters == {"I", "B", "C", "L"}

\* one of the four replacements of lines 265-268
ApplyInline(s, letter) ==
    CASE letter = "I" -> ReplaceInline(s, "I", "*", "*")
      [] letter = "B" -> ReplaceInline(s, "B", "**", "**")
      [] letter = "C" -> ReplaceInline(s, "C", BT, BT)
      [] letter = "L" -> ReplaceInline(s, "L", "", "")

\* the orders the four replacements can be applied in
InlineOrders == {o \in [1..4 -> InlineLetters] : \A i, j \in 1..4 : o[i] = o[j] => i = j}

ApplyInOrder(s, o) == ApplyInline(ApplyInline(ApplyInline(ApplyInline(s, o[1]), o[2]), o[3]), o[4])

\* the text the four replacements are applied to
HeadingsReplaced(podContent) ==
    ReplaceHeading(ReplaceHeading(ReplaceHeading(ReplaceHeading(podContent, 1), 2), 3), 4)

\* C14: the four inline replacements give the same text in each of the 24
\* orders they can be applied in, also on nested codes such as C<I<x>>.
C14_InlineCommute ==
    Rendered =>
        \A o \in InlineOrders :
            ApplyInOrder(HeadingsReplaced(input.text), o)
                = ApplyInOrder(HeadingsReplaced(input.text), <<"I", "B", "C", "L">>)

\* the record has the shape the claim gives to a UsageExample
WellFormedExample(e) ==
    /\ e.language = "perl"
    /\ e.title # ""
    /\ e.code # ""
    /\ Trim(e.code) = e.code
    /\ e.description # Undefined => Len(e.description[1]) > DescriptionMinLen

\* C15: every UsageExample a pass has pushed, and every one that
\* parseUsageExamples returns, has language 'perl', a title that is not
\* empty, a code that is not empty and equals its trim, and a description
\* that is absent or longer than 10 characters.
C15_ExamplesWellFormed ==
    /\ \A i \in 1..Len(examples) : WellFormedExample(examples[i])
    /\ parseResult.outcome = "return" =>
           \A i \in 1..Len(parseResult.value) : WellFormedExample(parseResult.value[i])

\* a call returned an example with a description and one whose following
\* text, 'See below.', is too short to be a description
C15_ShortDescriptionDropped ==
    /\ ParsedNormally
    /\ Includes(input.text, "\n\n" \o ShortNote)
    /\ \E i \in 1..Len(parseResult.value) : parseResult.value[i].description = Undefined
    /\ \E i \in 1..Len(parseResult.value) : parseResult.value[i].description # Undefined

\* extractModuleDescription returned on a string
Described == pc = "done" /\ moduleDescription.outcome = "return" /\ input.kind = "string"

\* the text between the first occurrence of a heading paragraph and the
\* next =head1 or =cut line, "" when the heading does not occur
SectionBody(text, heading) ==
    LET i == IndexOf(text, heading)
    IN IF i = -1 THEN ""
       ELSE LET from == i + Len(heading) + 1
                to == FirstOr({j \in from..Len(text) :
                                  /\ j = 1 \/ Ch(text, j - 1) = "\n"
                                  /\ StartsAt(text, j, "=head1") \/ StartsAt(text, j, "=cut")},
                              Len(text) + 1)
            IN SubSeq(text, from, to - 1)

\* the NAME section gives no description: it is empty or holds the name only
NoNameDescription(text) == Trim(SectionBody(text, NameHeading)) \in {"", "DBI", "DBI\n\nDBI"}

\* C16: extractModuleDescription never returns an empty description: it
\* returns the description of the NAME line when there is one; else the
\* first paragraph of the DESCRIPTION section with its whitespace collapsed;
\* and 'Perl module' when neither gives one, as for a DESCRIPTION section
\* with no body.
C16_DescriptionNeverEmpty ==
    Described =>
        LET text == input.text
            descBody == Trim(SectionBody(text, DescriptionHeading))
        IN /\ moduleDescription.value # ""
           /\ Includes(SectionBody(text, NameHeading), NameLine)
                 => moduleDescription.value = "Database independent interface for Perl"
           /\ NoNameDescription(text) /\ descBody # ""
                 => moduleDescription.value = Trim(CollapseSpaces(FirstParagraph(descBody)))
           /\ NoNameDescription(text) /\ descBody = ""
                 => moduleDescription.value = DefaultDescription

\* a tool call has answered with a response for a module that exists
Answered(tool) ==
    tpc = "replied" /\ call.tool = tool /\ reply.kind = "response" /\ reply.exists

\* C17: getPackageReadme honours include_examples on every call, whatever
\* calls came before: when the module exists and its POD, which the
\* response renders, yields an example, usage_examples is not empty if
\* include_examples is true or omitted and is empty if it is false.
C17_IncludeExamplesHonoured ==
    (/\ Answered("readme")
     /\ reply.readme_content = Render(ModulePod)
     /\ parseUsageExamples(ModulePod) # <<>>)
        => (reply.usage_examples = <<>>) = (call.include_examples = "false")

\* C18: getPackageInfo honours include_dependencies and
\* include_dev_dependencies on every call, whatever calls came before: the
\* response lists the runtime dependencies exactly when include_dependencies
\* is true or omitted, and the test dependencies exactly when
\* include_dev_dependencies is true.
C18_DependencyFlagsHonoured ==
    Answered("info") =>
        /\ (reply.dependencies # Undefined) = (call.include_dependencies # "false")
        /\ (reply.dev_dependencies # Undefined) = (call.include_dev_dependencies = "true")

\* the failures the server is said to retry after
RetriedFailures == {"429", "timeout"}

\* C19: a MetaCPAN request that fails with HTTP 429 or with a timeout is
\* retried: when the call ends after such a failure, more than one fetch
\* attempt was made for the request.
C19_FailedRequestRetried ==
    (tpc = "replied" /\ failure \in RetriedFailures) => attempts > 1

NameLetters == CharsOf(LowerLetters \o UpperLetters)

\* the names the claim accepts
Acceptable(t) ==
    /\ Len(t) >= 1 /\ Len(t) <= 100
    /\ Ch(t, 1) \in NameLetters
    /\ \A i \in 1..Len(t) : Ch(t, i) \in NameLetters \cup Digits \cup {":", "_", "-"}
    /\ \A i \in 1..Len(t) : SubSeq(t, i, Min(i + 2, Len(t))) # ":::"
    /\ SubSeq(t, 1, Min(2, Len(t))) # "::"
    /\ SubSeq(t, Max(1, Len(t) - 1), Len(t)) # "::"

\* C20: validateModuleName returns the trimmed input exactly when the
\* trimmed form starts with a letter, consists of letters, digits, ':',
\* '_' and '-', holds no ':::', neither starts nor ends with '::' and has
\* at most 100 characters; otherwise it throws a CpanPackageReadmeMcpError
\* with code INVALID_MODULE_NAME.
C20_ValidNamesReturned ==
    validation.outcome # "none" =>
        IF moduleName.kind = "string" /\ Acceptable(Trim(moduleName.text))
        THEN validation = Returned(Trim(moduleName.text))
        ELSE validation.outcome = "throw" /\ validation.code = "INVALID_MODULE_NAME"

\* a name with whitespace around it was returned without it
C20_TrimmedNameReturned ==
    /\ validation.outcome = "return"
    /\ validation.value # moduleName.text
    /\ Len(validation.value) >= 1


\* what a call of the operation gives when it is the only call ever made
AloneResult(op, text) ==
    CASE op = "parseUsageExamples" -> Returned(parseUsageExamples(text))
      [] op = "convertPodToReadme" -> convertPodToReadme(StringInput(text))
      [] op = "extractModuleDescription" -> Returned(extractModuleDescription(text))

\* the calls that have ended: those of the history and, when the parser is
\* at rest, the last one
EndedCount == Len(history) + (IF pc = "done" THEN 1 ELSE 0)

Ended(i) == IF i <= Len(history) THEN history[i] ELSE FinishedCall

\* C21: whatever calls were made before it on the shared instance, a call
\* of convertPodToReadme, parseUsageExamples or extractModuleDescription
\* that ends has returned what it returns when it is run alone on its
\* input, and two calls of one operation on the same input have returned
\* equal results.
C21_CallsIndependent ==
    /\ pc = "done" => FinishedCall.result = AloneResult(FinishedCall.op, FinishedCall.text)
    /\ \A i, j \in 1..EndedCount :
          (Ended(i).op = Ended(j).op /\ Ended(i).text = Ended(j).text)
              => Ended(i).result = Ended(j).result

\* parseUsageExamples was called on a document, then on another document,
\* then on the first one again, and found examples each time
C21_SameInputAgain ==
    /\ pc = "done" /\ Len(history) = 2
    /\ FinishedCall.op = "parseUsageExamples"
    /\ history[1].op = "parseUsageExamples" /\ history[2].op = "parseUsageExamples"
    /\ history[1].text = FinishedCall.text /\ history[2].text # FinishedCall.text
    /\ history[2].result.value # <<>> /\ FinishedCall.result.value # <<>>

\* the Synopsis pass has just applied the section locator to the document
SynopsisLocated == pc = "examples" /\ input.kind = "string"

\* the line is a heading of the given level whose text is the name, in
\* upper or lower case
IsSectionHeading(line, n, name) ==
    LET t == Trim(line)
    IN /\ Len(t) = 7 + Len(name)
       /\ StartsAtCI(t, 1, "=head" \o ToString(n) \o " " \o name)

HasSectionHeading(text, levels, name) ==
    \E k \in 1..Len(SplitLines(text)), n \in levels :
        IsSectionHeading(SplitLines(text)[k], n, name)

\* the text t lies in s just after a level-1 heading of the section and
\* just before a newline followed by one of the markers, or before the end
\* of s
LiesBetween(s, t, name, markers) ==
    \E p \in 2..(Len(s) + 1) :
        /\ StartsAt(s, p, t)
        /\ Ch(s, p - 1) = "\n"
        /\ LET e == SkipSpaceBack(s, p - 1)
           IN e >= 7 + Len(name) /\ StartsAtCI(s, e - 6 - Len(name), "=head1 " \o name)
        /\ \/ p + Len(t) > Len(s)
           \/ \E mk \in markers : StartsAtCI(s, p + Len(t), "\n" \o mk)

\* C22 as stated: the SYNOPSIS section is found when its heading stands at
\* any level 1..4, in upper or lower case; its text ends before the next
\* heading of any level, before =cut, or at the end of the document; when
\* the heading is absent no section and no example is found.
C22_AnyLevelSections ==
    SynopsisLocated =>
        LET m == SectionMatch(input.text, "SYNOPSIS", FALSE)
        IN /\ m.found <=> HasSectionHeading(input.text, 1..4, "SYNOPSIS")
           /\ m.found =>
                 /\ LiesBetween(input.text, m.text, "SYNOPSIS", {"=head", "=cut"})
                 /\ \A k \in 1..Len(SplitLines(m.text)) :
                       ~StartsAt(SplitLines(m.text)[k], 1, "=head")
           /\ ~m.found => examples = <<>>

\* C22 amended: the SYNOPSIS section is found when its heading stands at
\* level 1, in upper or lower case; its text ends before the first newline
\* followed by =head1 or =cut, or at the end of the document, so headings
\* of level 2..4 are part of it; when no level-1 heading of the section
\* exists no section and no example is found.
C22_Level1Sections ==
    SynopsisLocated =>
        LET m == SectionMatch(input.text, "SYNOPSIS", FALSE)
        IN /\ m.found <=> HasSectionHeading(input.text, {1}, "SYNOPSIS")
           /\ m.found =>
                 /\ LiesBetween(input.text, m.text, "SYNOPSIS", {"=head1", "=cut"})
                 /\ ~Includes(m.text, "\n=head1") /\ ~Includes(m.text, "\n=cut")
           /\ ~m.found => examples = <<>>

\* a section headed in lower case holds a level-3 heading and is ended by
\* =cut
C22_SubHeadingInsideSection ==
    /\ SynopsisLocated
    /\ HasSectionHeading(input.text, {1}, "SYNOPSIS")
    /\ ~Includes(input.text, "SYNOPSIS")
    /\ Includes(SectionMatch(input.text, "SYNOPSIS", FALSE).text, "=head3")
    /\ Includes(input.text, SectionMatch(input.text, "SYNOPSIS", FALSE).text \o "\n=cut")

\* a code line that holds no POD markup: no directive and no formatting code
PlainCodeLine(line) == IsCodeLine(line) /\ ~Includes(line, "=") /\ ~Includes(line, "<")

\* the line without the two columns of the margin
WithoutMargin(line) == SubSeq(line, 3, Len(line))

\* some example holds the code line, without its margin, as a line of its
\* code; the first line of a block may have lost all its indentation to
\* the trim of the block
HeldByExample(exs, line) ==
    \E i \in 1..Len(exs) :
        \E j \in 1..Len(SplitLines(exs[i].code)) :
            \/ SplitLines(exs[i].code)[j] = WithoutMargin(line)
            \/ j = 1 /\ SplitLines(exs[i].code)[j] = Trim(line)

\* C23: code runs lose only the two columns of their margin.  Every plain
\* code line of the SYNOPSIS section is a line of an example of the
\* Synopsis pass, without its first two columns, and every plain code line
\* of a document is a line of the output of convertPodToReadme, without
\* its first two columns: a line indented deeper keeps the rest of its
\* indentation.
C23_RelativeIndentationKept ==
    /\ SynopsisLocated =>
          LET body == SplitLines(SectionMatch(input.text, "SYNOPSIS", FALSE).text)
          IN \A k \in 1..Len(body) :
                PlainCodeLine(body[k]) => HeldByExample(examples, body[k])
    /\ Rendered =>
          \A k \in 1..Len(SplitLines(input.text)) :
              PlainCodeLine(SplitLines(input.text)[k]) =>
                  \E j \in 1..Len(SplitLines(readme.value)) :
                      \/ SplitLines(readme.value)[j] = WithoutMargin(SplitLines(input.text)[k])
                      \/ j = 1 /\ SplitLines(readme.value)[j] = Trim(SplitLines(input.text)[k])

\* the Examples pass has just pushed its examples
ExamplesPassed == pc = "codeblocks" /\ input.kind = "string"

\* what the Examples pass has pushed: the examples after those of the
\* Synopsis pass
ExamplesPassExamples ==
    SubSeq(examples, Len(extractSynopsisExamples(input.text)) + 1, Len(examples))

\* the lines of the EXAMPLES section, as the pass sees them
ExamplesLines == SplitLines(Trim(SectionMatch(input.text, "EXAMPLE", TRUE).text))

\* the lines at which a code run of the section begins, in order
RunStarts(lines) ==
    {k \in 1..Len(lines) : IsCodeLine(lines[k]) /\ (k = 1 \/ ~IsCodeLine(lines[k - 1]))}

\* the line at which the i-th code run begins
RunStart(lines, i) ==
    CHOOSE k \in RunStarts(lines) : Cardinality({j \in RunStarts(lines) : j <= k}) = i

\* a heading of level 2..4 stands before line k
SubHeadingBefore(lines, k) ==
    \E j \in 1..(k - 1), n \in 2..4 : StartsAt(lines[j], 1, "=head" \o ToString(n) \o " ")

\* the nearest line before line k that is not blank is a line of text of
\* fewer than TitleMaxLen characters that is no directive
ShortTextBefore(lines, k) ==
    LET before == {j \in 1..(k - 1) : Trim(lines[j]) # ""}
    IN /\ before # {}
       /\ LET t == Trim(lines[SetMax(before)])
          IN ~StartsAt(t, 1, "=") /\ Len(t) < TitleMaxLen

\* C24: in the Examples pass a block is titled 'Example N' only when no
\* heading of level 2..4 stands before it in the section and no short text
\* line stands immediately before it, whether the block has one line or
\* several; N is then the position of the block among the blocks of the
\* section.
C24_FallbackOnlyWithoutContext ==
    ExamplesPassed =>
        \A i \in 1..Len(ExamplesPassExamples) :
            StartsAt(ExamplesPassExamples[i].title, 1, "Example ") =>
                /\ ExamplesPassExamples[i].title = "Example " \o ToString(i)
                /\ ~SubHeadingBefore(ExamplesLines, RunStart(ExamplesLines, i))
                /\ ~ShortTextBefore(ExamplesLines, RunStart(ExamplesLines, i))

\* the trimmed lines that follow line k up to the first directive line,
\* joined by spaces
RECURSIVE TextUpToDirective(_, _)
TextUpToDirective(lines, k) ==
    IF k > Len(lines) \/ StartsAt(Trim(lines[k]), 1, "=") THEN ""
    ELSE Trim(lines[k]) \o " " \o TextUpToDirective(lines, k + 1)

\* the description is made of text that follows the first line of the code
\* before any directive line
FollowsBlock(text, code, description) ==
    \E k \in 1..Len(SplitLines(text)) :
        /\ Trim(SplitLines(text)[k]) = SplitLines(code)[1]
        /\ Includes(TextUpToDirective(SplitLines(text), k + 1), description)

\* C25: the description of an example, unless it is the fixed sentence of
\* the Synopsis pass, is made of the lines that follow the block up to the
\* first directive line: no text found after a line starting with '='
\* appears in a description.
C25_DescriptionStopsAtDirective ==
    ParsedNormally =>
        \A i \in 1..Len(parseResult.value) :
            LET e == parseResult.value[i]
            IN (e.description # Undefined /\ e.description[1] # SynopsisDescription)
                  => FollowsBlock(input.text, e.code, e.description[1])

\* C26: getModulePod never rejects and makes one or two fetches.  When the
\* module information carries a pod it returns that pod after one fetch;
\* when the first fetch fails it returns null after that one fetch;
\* otherwise it makes exactly one more fetch, of /pod, and returns the pod
\* of that response, or null when the fetch fails or brings no pod.
C26_PodCallBounded ==
    /\ podCall.outcome # "throw"
    /\ podCall.outcome = "pending" =>
          podCall.fetches = <<Fetched("ok", FALSE)>>
    /\ podCall.outcome = "return" =>
          LET f == podCall.fetches
          IN /\ Len(f) \in 1..2
             /\ f[1].pod => (Len(f) = 1 /\ podCall.value = Some(ModulePod))
             /\ f[1].outcome # "ok" => (Len(f) = 1 /\ podCall.value = Undefined)
             /\ (f[1].outcome = "ok" /\ ~f[1].pod) =>
                   /\ Len(f) = 2
                   /\ podCall.value = (IF f[2].pod THEN Some(ModulePod) ELSE Undefined)

\* the module information carried no pod and the fetch of /pod timed out:
\* getModulePod gave null and getPackageReadme answered with the basic
\* readme
C26_SecondFetchFailed ==
    /\ tpc = "replied" /\ podCall.outcome = "return"
    /\ Len(podCall.fetches) = 2
    /\ podCall.fetches[2].outcome = "timeout"
    /\ podCall.value = Undefined
    /\ reply.kind = "response" /\ reply.exists

\* the blocks the whole-document pass considers, de-indented and trimmed,
\* in the order of the matches of codeBlockRegex from position from on
RECURSIVE WholeDocumentBlocksFrom(_, _)
WholeDocumentBlocksFrom(podContent, from) ==
    LET p == FirstOr({j \in from..Len(podContent) : BlockStartsAt(podContent, j)}, 0)
    IN IF p = 0 THEN <<>>
       ELSE LET e == BlockEnd(podContent, p)
                code == Trim(Deindent(SubSeq(podContent, p, e - 1)))
            IN (IF code = "" THEN <<>> ELSE <<code>>) \o WholeDocumentBlocksFrom(podContent, e)

\* the line takes part in a block of the whole-document pass
InWholeDocumentBlock(podContent, line) ==
    \E i \in 1..Len(WholeDocumentBlocksFrom(podContent, 1)) :
        \E j \in 1..Len(SplitLines(WholeDocumentBlocksFrom(podContent, 1)[i])) :
            SplitLines(WholeDocumentBlocksFrom(podContent, 1)[i])[j] = Trim(line)

\* C27: the whole-document pass cuts the document into the same blocks as
\* extractPodCodeBlocks, and a line that is not indented is part of no
\* block.
C27_SameSegmentation ==
    ParsedNormally =>
        /\ WholeDocumentBlocksFrom(input.text, 1) = extractPodCodeBlocks(input.text)
        /\ \A k \in 1..Len(SplitLines(input.text)) :
              LET line == SplitLines(input.text)[k]
              IN (line # "" /\ ~IsCodeLine(line)) => ~InWholeDocumentBlock(input.text, line)


\* the lines of a sequence that are not empty, in order
NonEmptyLines(lines) == SelectSeq(lines, LAMBDA l : l # "")

\* C28: convertPodToReadme leaves code untouched apart from indentation.
\* The lines inside the fenced blocks of the output are the indented lines
\* of the input, in order, each without its leading indentation: heading
\* translation, inline substitution and directive stripping neither change
\* nor delete a line of a code run.
C28_CodeUntouched ==
    Rendered =>
        NonEmptyLines(FencedFrom(SplitLines(readme.value), 1, FALSE))
            = NonEmptyLines(IndentedLines(input.text))


\* the upstream failures that are not a 404
OtherFailures == Outcomes \ {"ok", "404"}

\* C29: getPackageReadme and getPackageInfo answer with exists = false
\* only when the fetch of getModuleInfo ended with a 404; when it ended in
\* another failure (a 429, a 500, no response) the call is rejected with
\* an error.
C29_NotFoundOnlyOn404 ==
    tpc = "replied" =>
        /\ (reply.kind = "response" /\ ~reply.exists) => failure = "404"
        /\ (podCall.outcome = "none" /\ failure \in OtherFailures) => reply.kind = "error"


\* the key under which the call in progress looks in the cache
CallKey(c) ==
    LET packageName == validateModuleName(StringInput(c.package_name)).value
    IN IF c.tool = "readme" THEN moduleReadmeKey(packageName) ELSE moduleInfoKey(packageName)

\* a tool call starts in this step: the tools were idle, something other
\* than the cache changes
CallStarts ==
    /\ Callable
    /\ cache' = cache
    /\ <<call, tpc, attempts, failure, reply, podCall>>'
          # <<call, tpc, attempts, failure, reply, podCall>>

\* C30: the cache holds only responses of successful lookups.  Every entry
\* is a response with exists = true; an entry is written only by the step
\* that returns this response after a fetch of the call, so a validation
\* failure and an exists = false response write nothing; a call with a
\* valid name that finds no entry under its key goes on to fetch, and a
\* call that finds one returns it without a fetch.
C30_CacheHoldsSuccesses ==
    [][/\ \A k \in CacheKeys :
             /\ cache'[k] # NoEntry => cache'[k][1].kind = "response" /\ cache'[k][1].exists
             /\ (cache'[k] # NoEntry /\ cache'[k] # cache[k]) =>
                    /\ ~Callable /\ tpc' = "replied"
                    /\ attempts' >= 1
                    /\ reply' = cache'[k][1]
                    /\ k = CallKey(call)
       /\ (CallStarts /\ validateModuleName(StringInput(call'.package_name)).outcome = "return") =>
             IF cache[CallKey(call')] # NoEntry
             THEN tpc' = "replied" /\ reply' = cache[CallKey(call')][1] /\ attempts' = 0
             ELSE tpc' \in {"readme_info", "info_fetch"} /\ reply' = NoReply
       /\ (CallStarts /\ validateModuleName(StringInput(call'.package_name)).outcome = "throw") =>
             tpc' = "replied" /\ reply'.kind = "error"
      ]_vars

\* a call was answered from the cache, without a fetch, while the cache
\* holds nothing under the key of the other tool
C30_HitAfterMiss ==
    /\ tpc = "replied" /\ attempts = 0
    /\ reply.kind = "response" /\ reply.exists
    /\ cache[CallKey(call)] = Some(reply)
    /\ \E k \in CacheKeys : cache[k] = NoEntry

=============================================================================
